---- MODULE Spec2Model ----
(***************************************************************************)
(* Conversation orchestration core of the WhatsApp assistant bot           *)
(* (src/src/index.js): the thread registry (ThreadManager), the turn       *)
(* (processMessage and the OpenAI helper calls) and the debounced          *)
(* per-user queue (MessageQueue).                                          *)
(*                                                                         *)
(* Strings are sequences of one-character strings, so that length and      *)
(* prefix tests are computed as the code computes them.  A JavaScript      *)
(* value is a record [t, s]: t is its type tag, s its string payload (the  *)
(* string itself, the string form of an object's id field, or the decimal  *)
(* digits of a number).                                                    *)
(***************************************************************************)
EXTENDS Integers, Sequences, FiniteSets, TLC

Users == {"u1", "u2"}

\* ------------------------------------------------------------------------
\* JavaScript values
\* ------------------------------------------------------------------------
StrV(s) == [t |-> "string", s |-> s]
ObjV(s) == [t |-> "object", s |-> s]
NumV(s) == [t |-> "number", s |-> s]
NullV == [t |-> "null", s |-> <<>>]
UndefV == [t |-> "undefined", s |-> <<>>]

Prefix == <<"t", "h", "r", "e", "a", "d", "_">>
IdA == Prefix \o <<"a", "b", "c", "d">>
IdB == Prefix \o <<"w", "x", "y", "z">>
IdShort == Prefix \o <<"a", "b", "c">>
IdWrongPrefix == <<"t", "h", "r", "e", "d", "_">> \o <<"a", "b", "c", "d", "e", "f">>
ObjectObject ==
    <<"[", "o", "b", "j", "e", "c", "t", " ", "O", "b", "j", "e", "c", "t", "]">>

\* JavaScript truthiness of a value
Truthy(v) ==
    CASE v.t = "string" -> v.s # <<>>
      [] v.t = "number" -> v.s # <<"0">>
      [] v.t = "object" -> TRUE
      [] OTHER -> FALSE

\* String(v)
JsString(v) ==
    CASE v.t = "string" -> v.s
      [] v.t = "number" -> v.s
      [] v.t = "object" -> ObjectObject
      [] v.t = "null" -> <<"n", "u", "l", "l">>
      [] OTHER -> <<"u", "n", "d", "e", "f", "i", "n", "e", "d">>

startsWith(s, p) == Len(s) >= Len(p) /\ SubSeq(s, 1, Len(p)) = p

MinIdLength == 10

forceString(value) ==
    IF value.t = "string" THEN value.s
    ELSE IF value.t = "object" /\ value.s # <<>> THEN value.s
    ELSE IF Truthy(value) THEN JsString(value)
    ELSE <<>>

isValidThreadIdLoose(threadId) ==
    LET cleanId == forceString(threadId)
    IN cleanId # <<>> /\ startsWith(cleanId, Prefix)

isValidThreadId(threadId) ==
    LET cleanId == forceString(threadId)
    IN cleanId # <<>> /\ startsWith(cleanId, Prefix) /\ Len(cleanId) > MinIdLength

\* A call's outcome: a returned value, or a thrown error named by err
Ret(v) == [throw |-> FALSE, val |-> v, err |-> ""]
Throw(e) == [throw |-> TRUE, val |-> UndefV, err |-> e]

ensureStringThreadId(threadId) ==
    LET cleanId == forceString(threadId)
    IN IF ~isValidThreadId(StrV(cleanId))
       THEN Throw("InvalidThreadId")
       ELSE Ret(StrV(cleanId))

\* ------------------------------------------------------------------------
\* ThreadManager: the registry, its persisted file and its methods
\* ------------------------------------------------------------------------
NoEntry == [t |-> "absent", s |-> <<>>]

\* Values a persisted entry may hold (threadMap.json is plain JSON)
FileVals ==
    {StrV(IdA), StrV(IdShort), ObjV(IdB), NumV(<<"4", "2">>)}

\* Values setThreadId may be handed
SetInputs ==
    {StrV(IdA), StrV(IdShort), StrV(IdWrongPrefix), StrV(<<>>),
     ObjV(IdB), ObjV(<<>>), NullV}

EmptyRegistry == [u \in Users |-> NoEntry]

FileOk(m) == [st |-> "ok", m |-> m]
FileMissing == [st |-> "missing", m |-> EmptyRegistry]
FileCorrupt == [st |-> "corrupt", m |-> EmptyRegistry]

loadThreadsUnfiltered(f) ==
    IF f.st = "ok" THEN f.m ELSE EmptyRegistry

loadThreads(f) ==
    IF f.st = "ok"
    THEN [key \in Users |->
            IF f.m[key] # NoEntry /\ isValidThreadId(StrV(forceString(f.m[key])))
            THEN StrV(forceString(f.m[key]))
            ELSE NoEntry]
    ELSE EmptyRegistry

\* saveThreads adding the entries of the registry to those of the file
saveThreadsMerged(t, f, ioOk) ==
    IF ioOk
    THEN FileOk([key \in Users |-> IF t[key] # NoEntry THEN t[key] ELSE f.m[key]])
    ELSE f

\* fs.writeFileSync(THREADS_FILE, JSON.stringify(this.threads)); an I/O
\* failure is caught and logged
saveThreads(t, f, ioOk) == IF ioOk THEN FileOk(t) ELSE f

getThreadId(t, from) ==
    LET raw == t[from]
    IN IF raw.t = "string" /\ isValidThreadId(raw) THEN raw ELSE NullV

setThreadIdRaw(t, f, from, threadId, ioOk) ==
    LET r == ensureStringThreadId(threadId)
        t2 == [t EXCEPT ![from] = threadId]
    IN IF r.throw
       THEN [ret |-> r, threads |-> t, file |-> f]
       ELSE [ret |-> r, threads |-> t2, file |-> saveThreads(t2, f, ioOk)]

setThreadIdUnchecked(t, f, from, threadId, ioOk) ==
    LET cleanId == StrV(forceString(threadId))
        t2 == [t EXCEPT ![from] = cleanId]
    IN [ret |-> Ret(cleanId), threads |-> t2, file |-> saveThreads(t2, f, ioOk)]

\* setThreadId letting a failed write of the file escape
setThreadIdSaveRaises(t, f, from, threadId, ioOk) ==
    LET r == ensureStringThreadId(threadId)
        t2 == [t EXCEPT ![from] = r.val]
    IN IF r.throw
       THEN [ret |-> r, threads |-> t, file |-> f]
       ELSE [ret |-> IF ioOk THEN r ELSE Throw("SaveFailed"),
             threads |-> t2, file |-> saveThreads(t2, f, ioOk)]

setThreadId(t, f, from, threadId, ioOk) ==
    LET r == ensureStringThreadId(threadId)
        t2 == [t EXCEPT ![from] = r.val]
    IN IF r.throw
       THEN [ret |-> r, threads |-> t, file |-> f]
       ELSE [ret |-> r, threads |-> t2, file |-> saveThreads(t2, f, ioOk)]

\* removeThread refusing a user that has no entry
removeThreadStrict(t, fi, f, from, ioOk) ==
    LET t2 == [t EXCEPT ![from] = NoEntry]
    IN IF t[from] = NoEntry
       THEN [ret |-> Throw("NoThread"), threads |-> t, firstInteractions |-> fi,
             file |-> f]
       ELSE [ret |-> Ret(UndefV), threads |-> t2, firstInteractions |-> fi \ {from},
             file |-> saveThreads(t2, f, ioOk)]

\* removeThread deleting the entry from the registry only, with no saveThreads
removeThreadMemoryOnly(t, fi, f, from, ioOk) ==
    [ret |-> Ret(UndefV), threads |-> [t EXCEPT ![from] = NoEntry],
     firstInteractions |-> fi \ {from}, file |-> f]

removeThread(t, fi, f, from, ioOk) ==
    LET t2 == [t EXCEPT ![from] = NoEntry]
    IN [ret |-> Ret(UndefV), threads |-> t2, firstInteractions |-> fi \ {from},
        file |-> saveThreads(t2, f, ioOk)]

\* isFirstInteraction answering from the firstInteractions set
isFirstInteractionBySet(t, fi, from) ==
    [ret |-> from \notin fi, firstInteractions |-> fi \cup {from}]

\* isFirstInteraction dropping the user from the set once a thread is stored
isFirstInteractionForgets(t, fi, from) ==
    LET isFirst == getThreadId(t, from) = NullV
    IN [ret |-> isFirst,
        firstInteractions |-> IF isFirst THEN fi \cup {from} ELSE fi \ {from}]

isFirstInteraction(t, fi, from) ==
    LET isFirst == getThreadId(t, from) = NullV
    IN [ret |-> isFirst,
        firstInteractions |-> IF isFirst THEN fi \cup {from} ELSE fi]

BoolV(b) == [t |-> "boolean", s |-> IF b THEN <<"1">> ELSE <<>>]

\* ------------------------------------------------------------------------
\* removeCitations / formatForWhatsApp
\* ------------------------------------------------------------------------
\* One-character tokens standing for the non-ASCII characters of the patterns
OpenL == "LENTICULAR-OPEN"      \* U+3010
CloseL == "LENTICULAR-CLOSE"    \* U+3011
Dagger == "DAGGER"              \* U+2020
Bullet == "BULLET"              \* U+2022
NL == "\n"

Digit == {"0", "1", "2", "3", "4", "5", "6", "7", "8", "9"}
Space == {" ", NL, "\t"}
Upper == {"A", "B", "C", "D", "E", "O", "P", "S", "F"}

\* Pattern elements: a literal, \d+, the lazy .*? and an optional class
Lit(c) == [k |-> "lit", set |-> {c}]
Digits == [k |-> "digits", set |-> Digit]
Lazy == [k |-> "lazy", set |-> {}]
Opt(S) == [k |-> "opt", set |-> S]

RECURSIVE RunLen(_, _, _)
\* number of consecutive characters of s from position i on that are in S
RunLen(s, i, S) ==
    IF i <= Len(s) /\ s[i] \in S THEN 1 + RunLen(s, i + 1, S) ELSE 0

RECURSIVE DotLen(_, _)
DotLen(s, i) ==
    IF i <= Len(s) /\ s[i] # NL THEN 1 + DotLen(s, i + 1) ELSE 0

RECURSIVE MatchEnd(_, _, _, _)
RECURSIVE TryDigits(_, _, _, _, _)
RECURSIVE TryLazy(_, _, _, _, _, _)

\* position after the match of p[j..] at s[i..] that a backtracking matcher
\* finds first, or 0 when there is none
MatchEnd(p, j, s, i) ==
    IF j > Len(p) THEN i
    ELSE CASE p[j].k = "lit" ->
                IF i <= Len(s) /\ s[i] \in p[j].set
                THEN MatchEnd(p, j + 1, s, i + 1) ELSE 0
           [] p[j].k = "digits" -> TryDigits(p, j, s, i, RunLen(s, i, Digit))
           [] p[j].k = "lazy" -> TryLazy(p, j, s, i, 0, DotLen(s, i))
           [] OTHER ->
                LET taken == IF i <= Len(s) /\ s[i] \in p[j].set
                             THEN MatchEnd(p, j + 1, s, i + 1) ELSE 0
                IN IF taken # 0 THEN taken ELSE MatchEnd(p, j + 1, s, i)

\* \d+ is greedy: the longest run first
TryDigits(p, j, s, i, n) ==
    IF n = 0 THEN 0
    ELSE LET e == MatchEnd(p, j + 1, s, i + n)
         IN IF e # 0 THEN e ELSE TryDigits(p, j, s, i, n - 1)

\* .*? is lazy: the shortest run first
TryLazy(p, j, s, i, n, max) ==
    IF n > max THEN 0
    ELSE LET e == MatchEnd(p, j + 1, s, i + n)
         IN IF e # 0 THEN e ELSE TryLazy(p, j, s, i, n + 1, max)

RECURSIVE ReplaceFrom(_, _, _)
ReplaceFrom(p, s, i) ==
    IF i > Len(s) THEN <<>>
    ELSE LET e == MatchEnd(p, 1, s, i)
         IN IF e # 0 THEN ReplaceFrom(p, s, e)
            ELSE <<s[i]>> \o ReplaceFrom(p, s, i + 1)

\* s.replace(/p/g, '')
Remove(p, s) == ReplaceFrom(p, s, 1)

PairTag(o, c) == <<Lit(o), Digits, Lit(":"), Digits, Lit(Dagger), Lazy, Lit(c)>>
NumTag(o, c) == <<Lit(o), Digits, Lit(Dagger), Lazy, Lit(c)>>
Source == <<Lit("s"), Lit("o"), Lit("u"), Lit("r"), Lit("c"), Lit("e")>>
NumSource(o, c) == <<Lit(o), Digits, Lit(Dagger)>> \o Source \o <<Lit(c)>>
PairSource(o, c) ==
    <<Lit(o), Digits, Lit(":"), Digits, Lit(Dagger)>> \o Source \o <<Lit(c)>>
Num(o, c) == <<Lit(o), Digits, Lit(c)>>
Pair(o, c) == <<Lit(o), Digits, Lit(":"), Digits, Lit(c)>>
PairSep(o, sep, c) == <<Lit(o), Digits, Lit(":"), Digits, Lit(sep), Lazy, Lit(c)>>
PairAny(o, c) ==
    <<Lit(o), Digits, Lit(":"), Digits, Opt({Dagger, "*", "-"}), Lazy, Lit(c)>>

\* the citation patterns of removeCitations, in the order they are applied
CitationPatterns ==
    << PairTag(OpenL, CloseL),
       NumSource(OpenL, CloseL),
       NumTag(OpenL, CloseL),
       Num(OpenL, CloseL),
       Num("[", "]"),
       Num("(", ")"),
       PairTag("[", "]"),
       PairSource("[", "]"),
       Pair("[", "]"),
       Pair("(", ")"),
       PairSep("[", "*", "]"),
       PairSep("[", "-", "]"),
       PairAny("[", "]"),
       PairTag("(", ")") >>

RECURSIVE RemoveAll(_, _, _)
RemoveAll(ps, k, s) ==
    IF k > Len(ps) THEN s ELSE RemoveAll(ps, k + 1, Remove(ps[k], s))

RECURSIVE FindChar(_, _, _)
\* first position >= i of s holding c, or 0
FindChar(s, i, c) ==
    IF i > Len(s) THEN 0
    ELSE IF s[i] = c THEN i ELSE FindChar(s, i + 1, c)

RECURSIVE LinksFrom(_, _)
\* s.replace(/\[([^\]]*)\]\(([^)]+)\)/g, '$2')
LinksFrom(s, i) ==
    IF i > Len(s) THEN <<>>
    ELSE LET rb == IF s[i] = "[" THEN FindChar(s, i + 1, "]") ELSE 0
             rp == IF rb # 0 /\ rb + 1 <= Len(s) /\ s[rb + 1] = "("
                   THEN FindChar(s, rb + 3, ")") ELSE 0
             ok == rp # 0 /\ s[rb + 2] # ")"
         IN IF ok
            THEN SubSeq(s, rb + 2, rp - 1) \o LinksFrom(s, rp + 1)
            ELSE <<s[i]>> \o LinksFrom(s, i + 1)

LowerCase(c) ==
    CASE c = "S" -> "s" [] c = "O" -> "o" [] c = "U" -> "u" [] c = "R" -> "r"
      [] c = "C" -> "c" [] c = "E" -> "e" [] c = "F" -> "f" [] c = "N" -> "n"
      [] c = "T" -> "t" [] OTHER -> c

\* length of the prefix of s[i..] that spells w ignoring case, or 0
WordAt(s, i, w) ==
    IF /\ i + Len(w) - 1 <= Len(s)
       /\ \A k \in 1..Len(w) : LowerCase(s[i + k - 1]) = w[k]
    THEN Len(w) ELSE 0

\* end of a match of /^(Sources?|Fontes?):\s*$/im at position i, or 0
HeadingEnd(s, i) ==
    LET atLineStart == i = 1 \/ s[i - 1] = NL
        w1 == WordAt(s, i, <<"s", "o", "u", "r", "c", "e">>)
        w2 == WordAt(s, i, <<"f", "o", "n", "t", "e">>)
        w == IF w1 # 0 THEN w1 ELSE w2
        plural == IF w # 0 /\ i + w <= Len(s) /\ LowerCase(s[i + w]) = "s"
                  THEN 1 ELSE 0
        \* position of the colon: after the plural "s" when that matches
        colon == IF w = 0 THEN 0
                 ELSE IF i + w + plural <= Len(s) /\ s[i + w + plural] = ":"
                      THEN i + w + plural
                      ELSE IF i + w <= Len(s) /\ s[i + w] = ":" THEN i + w ELSE 0
        run == IF colon = 0 THEN 0 ELSE RunLen(s, colon + 1, Space)
        ends == IF colon = 0 THEN {}
                ELSE {e \in (colon + 1)..(colon + 1 + run) :
                        e > Len(s) \/ s[e] = NL}
    IN IF atLineStart /\ colon # 0 /\ ends # {}
       THEN CHOOSE e \in ends : \A f \in ends : f <= e
       ELSE 0

RECURSIVE HeadingsFrom(_, _)
HeadingsFrom(s, i) ==
    IF i > Len(s) THEN <<>>
    ELSE LET e == HeadingEnd(s, i)
         IN IF e # 0 THEN HeadingsFrom(s, e)
            ELSE <<s[i]>> \o HeadingsFrom(s, i + 1)

RECURSIVE Collapse(_, _)
\* s.replace(/\s+/g, ' ')
Collapse(s, i) ==
    IF i > Len(s) THEN <<>>
    ELSE IF s[i] \in Space
         THEN <<" ">> \o Collapse(s, i + RunLen(s, i, Space))
         ELSE <<s[i]>> \o Collapse(s, i + 1)

RECURSIVE TrimLeft(_)
TrimLeft(s) == IF s # <<>> /\ Head(s) \in Space THEN TrimLeft(Tail(s)) ELSE s

RECURSIVE TrimRight(_)
TrimRight(s) ==
    IF s # <<>> /\ s[Len(s)] \in Space
    THEN TrimRight(SubSeq(s, 1, Len(s) - 1)) ELSE s

Trim(s) == TrimRight(TrimLeft(s))

removeCitationsKeepNumbers(text) ==
    IF text = <<>> THEN <<>>
    ELSE Trim(Collapse(HeadingsFrom(LinksFrom(text, 1), 1), 1))

removeCitations(text) ==
    IF text = <<>> THEN <<>>
    ELSE Trim(Collapse(HeadingsFrom(
            LinksFrom(RemoveAll(CitationPatterns, 1, text), 1), 1), 1))

RECURSIVE BreaksFrom(_, _)
\* the paragraph-break rules of formatForWhatsApp: ". X" and ": X" before a
\* capital letter become ".\n\nX" and ":\n\nX"; a leading "- " of a line
\* becomes the bullet glyph
BreaksFrom(s, i) ==
    IF i > Len(s) THEN <<>>
    ELSE IF /\ s[i] \in {".", ":"}
            /\ i + 2 <= Len(s)
            /\ s[i + 1] = " "
            /\ s[i + 2] \in Upper
         THEN <<s[i], NL, NL>> \o BreaksFrom(s, i + 2)
         ELSE IF /\ s[i] = "-"
                 /\ (i = 1 \/ s[i - 1] = NL)
                 /\ i + 1 <= Len(s)
                 /\ s[i + 1] = " "
              THEN <<Bullet>> \o BreaksFrom(s, i + 1)
              ELSE <<s[i]>> \o BreaksFrom(s, i + 1)

formatForWhatsApp(text) ==
    IF text = <<>> THEN <<>> ELSE Trim(BreaksFrom(text, 1))

\* ------------------------------------------------------------------------
\* State
\* ------------------------------------------------------------------------
VARIABLES
    threads,            \* threadManager.threads
    firstInteractions,  \* threadManager.firstInteractions
    file,               \* threadMap.json
    queues,             \* messageQueue.queues
    processing,         \* messageQueue.processing
    timers,             \* per user: pending debounce timers (setTimeout)
    drain,              \* per user and slot: a running processQueue call
    enq,                \* per user: payloads handed to addMessage so far
    last,               \* the latest ThreadManager call and its outcome (for
                        \* removeThread, arg is the entry the call deleted)
    expect,             \* per user: canonical form of the valid id handed to
                        \* the latest setThreadId call, NoEntry after an
                        \* invalid one, a removeThread or a construction
    snap,               \* per user: the buffer as the latest drain found it
    issued,             \* per user: processMessage calls of the latest drain
    drainEnd,           \* per user: how the latest drain ended
    turnEnd,            \* per user: how the latest processMessage call ended
    log,                \* the logger: whether its lines are kept, and per user
                        \* the lines of the latest processMessage call and of
                        \* the delivery of its reply
    sample,             \* a text handed to removeCitations, and the result
    clock               \* the time, whether it is kept, and per user the times
                        \* of the latest addMessage, startDebounce and timer

storeVars == <<threads, firstInteractions, file, last, expect>>
queueVars == <<queues, processing, timers, drain, enq, snap, issued, drainEnd, turnEnd>>
vars == <<threads, firstInteractions, file, queues, processing, timers, drain, enq,
          last, expect, snap, issued, drainEnd, turnEnd, log, sample, clock>>

\* ---- bounds of the model ----
MaxEnqueue == 3         \* payloads handed to addMessage, all users together
MaxDrains == 2          \* processQueue calls of one user that may overlap
maxAttempts == 2        \* waitForRunCompletion's maxAttempts (60 in the code)
debounceTime == 2       \* messageQueue.debounceTime, in ticks of the clock
                        \* (2000 ms in the code)
MaxTime == 5            \* ticks of the clock

Slots == 1..MaxDrains

Text(c) == [type |-> "text", content |-> c]
Media(t, c) == [type |-> t, content |-> c]
NoPayload == [type |-> "none", content |-> <<>>]

\* Payloads the transport hands to addMessage: the n-th payload of a user
\* carries the content "n", so that every payload of a user is distinct
\* (an "audio" payload takes the same path as an "image" one)
Types == {"text", "image"}
Ordinal(n) == <<(<<"0", "1", "2", "3", "4", "5", "6", "7", "8", "9">>)[n + 1]>>
Payload(t, n) == [type |-> t, content |-> Ordinal(n)]

RECURSIVE SumOver(_, _)
SumOver(f, S) ==
    IF S = {} THEN 0
    ELSE LET x == CHOOSE y \in S : TRUE IN f[x] + SumOver(f, S \ {x})

\* response.id of openai.beta.threads.create()
CreatedIds == {StrV(IdA), UndefV}

\* run.status of openai.beta.threads.runs.retrieve()
Pending == {"queued", "in_progress"}
Broken == {"failed", "cancelled", "expired"}

\* openai.beta.threads.messages.list(): the role of data[0] ("none" for an
\* empty list), the type of its content[0] and the text value
Listing(role, type, text) == [role |-> role, type |-> type, text |-> text]
Listings ==
    {Listing("none", "", <<>>),
     Listing("user", "text", <<"a">>),
     Listing("assistant", "image_file", <<>>),
     Listing("assistant", "text", <<"o", "k", " ", "[", "1", "]">>),
     Listing("assistant", "text", <<"(", "2", ")">>)}

Apology == <<"D", "e", "s", "c", "u", "l", "p", "e">>

IdleDrain ==
    [pc |-> "idle", cur |-> NoPayload, media |-> <<>>, threadId |-> NullV,
     first |-> FALSE, attempts |-> 0, reply |-> Ret(UndefV)]

\* One-character tokens standing for the two framing prefixes of processMessage
FirstFraming == "FIRST-INTERACTION: "
ContinuedFraming == "CONTINUING: "

contextualMessageAlwaysFirst(isFirst, messageText) == <<FirstFraming>> \o messageText

contextualMessage(isFirst, messageText) ==
    <<IF isFirst THEN FirstFraming ELSE ContinuedFraming>> \o messageText

\* Errors thrown inside processMessage
InvalidThreadId == "InvalidThreadId"
RemoteError == "RemoteError"
Timeout == "Timeout"
RunFailed(status) ==
    CASE status = "failed" -> "RunFailed{failed}"
      [] status = "cancelled" -> "RunFailed{cancelled}"
      [] OTHER -> "RunFailed{expired}"

\* A line of the logger: a call entered or issued (ev), the thread id and the
\* text it carries, the number of the poll, and the error logged
Line(ev, id, text, n, err) ==
    [ev |-> ev, id |-> id, text |-> text, n |-> n, err |-> err]
Entered(tid, messageText) == Line("processMessage", tid.s, messageText, 0, "")
Remote(call, id, text, n) == Line(call, id, text, n, "")
Status(status, n) == Line("run.status", <<>>, <<status>>, n, "")
Failed(err) == Line("error", <<>>, <<>>, 0, err)
Send(text) == Line("sendMessage", <<>>, text, 0, "")
SendRejected == Line("sendMessage.rejected", <<>>, <<>>, 0, "")
\* what messages.list returned: id holds the role and the content type of
\* the latest message, text its text value
Listed(m) == Line("messages.list.data", <<m.role, m.type>>, m.text, 0, "")

\* the remote call a processMessage call suspended at pc is waiting for
CallOf(pc) ==
    CASE pc = "create" -> "threads.create"
      [] pc = "append" -> "messages.create"
      [] pc = "run" -> "runs.create"
      [] pc = "poll" -> "runs.retrieve"
      [] OTHER -> "messages.list"

NoLines == [u \in Users |-> <<>>]
LogOff == [on |-> FALSE, lines |-> NoLines]
LogOn == [on |-> TRUE, lines |-> NoLines]

\* the logger appends ls to the lines of u / starts the lines of u over
Logged(u, ls) == IF log.on THEN [log EXCEPT !.lines[u] = @ \o ls] ELSE log
LoggedAnew(u, ls) == IF log.on THEN [log EXCEPT !.lines[u] = ls] ELSE log

NoSample == [text |-> <<>>, out |-> <<>>, done |-> FALSE]

\* The clock: per user the time of the latest addMessage (arrived), of the
\* latest startDebounce (started) and when its timer is due, the time the
\* latest timer fired, the startDebounce it came from (opened) and the latest
\* arrival before it fired (quiet); -1: never
Never == [u \in Users |-> 0 - 1]
ClockOff ==
    [on |-> FALSE, now |-> 0, arrived |-> Never, started |-> Never, due |-> Never,
     fired |-> Never, opened |-> Never, quiet |-> Never]
ClockOn == [ClockOff EXCEPT !.on = TRUE]

\* setTimeout(..., 0) in startDebounce
startDebounceNoDelay(c, from) ==
    [c EXCEPT !.started[from] = c.now, !.due[from] = c.now]

\* startDebounce: setTimeout(() => processQueue(from), debounceTime)
startDebounce(c, from) ==
    [c EXCEPT !.started[from] = c.now, !.due[from] = c.now + debounceTime]

\* addMessage at the present time, with or without startDebounce
Arrived(u, starts) ==
    LET c == [clock EXCEPT !.arrived[u] = clock.now]
    IN IF ~clock.on THEN clock
       ELSE IF starts THEN startDebounce(c, u) ELSE c

\* the timer of u has run for its delay
Expired(u) == clock.on => clock.now >= clock.due[u]

\* the callback of u's timer runs at the present time
Fired(u) ==
    IF clock.on
    THEN [clock EXCEPT !.fired[u] = clock.now, !.opened[u] = clock.started[u],
                       !.quiet[u] = clock.arrived[u]]
    ELSE clock

NoTurn == [st |-> "none", ret |-> Ret(UndefV), after |-> NullV]

Call(op, u, arg, ret) == [op |-> op, u |-> u, arg |-> arg, ret |-> ret]

\* new ThreadManager() over the file f
Construct(f) ==
    /\ file = f
    /\ threads = loadThreads(f)
    /\ firstInteractions = {}
    /\ last = Call("load", "u1", UndefV, Ret(UndefV))
    /\ expect = EmptyRegistry

\* new MessageQueue()
QueueInit ==
    /\ queues = [u \in Users |-> <<>>]
    /\ processing = {}
    /\ timers = [u \in Users |-> 0]
    /\ drain = [u \in Users |-> [k \in Slots |-> IdleDrain]]
    /\ enq = [u \in Users |-> 0]
    /\ snap = [u \in Users |-> <<>>]
    /\ issued = [u \in Users |-> <<>>]
    /\ drainEnd = [u \in Users |-> "none"]
    /\ turnEnd = [u \in Users |-> NoTurn]

InitialFiles ==
    {FileMissing, FileCorrupt} \cup {FileOk(m) : m \in [Users -> FileVals \cup {NoEntry}]}

InitStore ==
    /\ QueueInit
    /\ \E f \in InitialFiles : Construct(f)
    /\ log = LogOff
    /\ sample = NoSample
    /\ clock = ClockOff

\* ------------------------------------------------------------------------
\* ThreadManager called directly
\* ------------------------------------------------------------------------
\* the process is restarted: a new ThreadManager is constructed over the file
Restart ==
    /\ threads' = loadThreads(file)
    /\ firstInteractions' = {}
    /\ last' = Call("load", "u1", UndefV, Ret(UndefV))
    /\ expect' = EmptyRegistry
    /\ UNCHANGED file
    /\ UNCHANGED queueVars
    /\ UNCHANGED <<log, sample, clock>>

GetThreadId(u) ==
    /\ last' = Call("get", u, UndefV, Ret(getThreadId(threads, u)))
    /\ UNCHANGED <<threads, firstInteractions, file, expect>>
    /\ UNCHANGED queueVars
    /\ UNCHANGED <<log, sample, clock>>

SetThreadId(u, v, ioOk) ==
    LET r == setThreadId(threads, file, u, v, ioOk)
    IN /\ threads' = r.threads
       /\ file' = r.file
       /\ last' = Call("set", u, v, r.ret)
       /\ expect' = [expect EXCEPT ![u] =
               IF isValidThreadId(v) THEN StrV(forceString(v)) ELSE NoEntry]
       /\ UNCHANGED firstInteractions
       /\ UNCHANGED queueVars
       /\ UNCHANGED <<log, sample, clock>>

RemoveThread(u, ioOk) ==
    LET r == removeThread(threads, firstInteractions, file, u, ioOk)
    IN /\ threads' = r.threads
       /\ firstInteractions' = r.firstInteractions
       /\ file' = r.file
       /\ last' = Call("remove", u, threads[u], r.ret)
       /\ expect' = [expect EXCEPT ![u] = NoEntry]
       /\ UNCHANGED queueVars
       /\ UNCHANGED <<log, sample, clock>>

IsFirstInteraction(u) ==
    LET r == isFirstInteraction(threads, firstInteractions, u)
    IN /\ firstInteractions' = r.firstInteractions
       /\ last' = Call("isFirst", u, UndefV, Ret(BoolV(r.ret)))
       /\ UNCHANGED <<threads, file, expect>>
       /\ UNCHANGED queueVars
       /\ UNCHANGED <<log, sample, clock>>

NextStore ==
    \/ Restart
    \/ \E u \in Users : GetThreadId(u)
    \/ \E u \in Users, v \in SetInputs, ioOk \in BOOLEAN : SetThreadId(u, v, ioOk)
    \/ \E u \in Users, ioOk \in BOOLEAN : RemoveThread(u, ioOk)
    \/ \E u \in Users : IsFirstInteraction(u)

SpecStore == InitStore /\ [][NextStore]_vars

\* the ThreadManager on a disk whose writes all succeed
NextStoreDurable ==
    \/ Restart
    \/ \E u \in Users : GetThreadId(u)
    \/ \E u \in Users, v \in SetInputs : SetThreadId(u, v, TRUE)
    \/ \E u \in Users : RemoveThread(u, TRUE)
    \/ \E u \in Users : IsFirstInteraction(u)

SpecStoreDurable == InitStore /\ [][NextStoreDurable]_vars

\* ------------------------------------------------------------------------
\* MessageQueue and processMessage
\* ------------------------------------------------------------------------
RECURSIVE Join(_)
\* contents.join(' ')
Join(cs) ==
    IF cs = <<>> THEN <<>>
    ELSE IF Len(cs) = 1 THEN cs[1]
    ELSE cs[1] \o <<" ">> \o Join(Tail(cs))

RECURSIVE Concat(_)
Concat(cs) == IF cs = <<>> THEN <<>> ELSE cs[1] \o Concat(Tail(cs))

Contents(q) == [i \in 1..Len(q) |-> q[i].content]
IsText(p) == p.type = "text"
IsMedia(p) == p.type # "text"
textMessages(q) == SelectSeq(q, IsText)
Reverse(q) == [i \in 1..Len(q) |-> q[Len(q) + 1 - i]]
mediaMessagesReversed(q) == Reverse(SelectSeq(q, IsMedia))
\* the media loop running over every payload of the queue
mediaMessagesAll(q) == q

mediaMessages(q) == SelectSeq(q, IsMedia)
combinedTextNoSpace(q) == Concat(Contents(textMessages(q)))
combinedText(q) == Join(Contents(textMessages(q)))

\* the await a processMessage call is suspended at
InTurn == {"create", "append", "run", "poll", "fetch"}

FreeSlot(u) == CHOOSE k \in Slots :
    /\ drain[u][k].pc = "idle"
    /\ \A j \in Slots : drain[u][j].pc = "idle" => k <= j

\* the catch block of processMessage
processMessageRethrow(error) == Throw(error)

\* the catch block answering with the error it caught
processMessageLeak(error) == Ret(StrV(<<error>>))

processMessageCatch(error) == Ret(StrV(Apology))

\* addMessage always starting a debounce
addMessageNoGuard(u, t) ==
    /\ SumOver(enq, Users) < MaxEnqueue
    /\ enq' = [enq EXCEPT ![u] = @ + 1]
    /\ queues' = [queues EXCEPT ![u] = Append(@, Payload(t, enq[u] + 1))]
    /\ processing' = processing \cup {u}
    /\ timers' = [timers EXCEPT ![u] = @ + 1]
    /\ UNCHANGED <<drain, snap, issued, drainEnd, turnEnd, log, sample, clock>>
    /\ UNCHANGED storeVars

\* addMessage, and startDebounce when the user is not being processed
addMessage(u, t) ==
    /\ SumOver(enq, Users) < MaxEnqueue
    /\ enq' = [enq EXCEPT ![u] = @ + 1]
    /\ queues' = [queues EXCEPT ![u] = Append(@, Payload(t, enq[u] + 1))]
    /\ IF u \notin processing
       THEN /\ processing' = processing \cup {u}
            /\ timers' = [timers EXCEPT ![u] = @ + 1]
       ELSE UNCHANGED <<processing, timers>>
    /\ clock' = Arrived(u, u \notin processing)
    /\ UNCHANGED <<drain, snap, issued, drainEnd, turnEnd, log, sample>>
    /\ UNCHANGED storeVars

\* addMessageToThread issuing messages.create for whatever it is handed
addMessageToThreadUnchecked(threadId) == Ret(StrV(forceString(threadId)))

\* addMessageToThread up to its await: the id messages.create is issued
\* with, or the error thrown before the call
addMessageToThread(threadId) == ensureStringThreadId(threadId)

\* the frame of a processMessage call that goes on to addMessageToThread
\* with threadId, and the lines logged on the way
Enter(p, media, threadId, isFirst) ==
    LET e == addMessageToThread(threadId)
    IN [frame |->
            [pc |-> IF e.throw THEN "rejected" ELSE "append",
             cur |-> p, media |-> media, threadId |-> threadId,
             first |-> isFirst, attempts |-> 0, reply |-> Ret(UndefV)],
        lines |->
            IF e.throw THEN <<>>
            ELSE <<Remote("messages.create", e.val.s,
                          contextualMessage(isFirst, p.content), 0)>>]

\* processSingleMessage calls processMessage, which runs up to its first
\* await: getThreadId, isFirstInteraction, then createNewThread or
\* addMessageToThread
BeginCall(u, k, p, media, base) ==
    LET tid == getThreadId(threads, u)
        fi == isFirstInteraction(threads, firstInteractions, u)
        e == Enter(p, media, tid, fi.ret)
    IN /\ issued' = [issued EXCEPT ![u] = Append(base, p)]
       /\ firstInteractions' = fi.firstInteractions
       /\ last' = Call("isFirst", u, UndefV, Ret(BoolV(fi.ret)))
       /\ IF tid = NullV
          THEN /\ drain' = [drain EXCEPT ![u][k] = [e.frame EXCEPT !.pc = "create"]]
               /\ log' = LoggedAnew(u, <<Entered(tid, p.content),
                                         Remote("threads.create", <<>>, <<>>, 0)>>)
          ELSE /\ drain' = [drain EXCEPT ![u][k] = e.frame]
               /\ log' = LoggedAnew(u, <<Entered(tid, p.content)>> \o e.lines)

\* processQueue ending without emptying the queue
FinishKeepsQueue(u, k, how) ==
    /\ processing' = processing \ {u}
    /\ drain' = [drain EXCEPT ![u][k] = IdleDrain]
    /\ drainEnd' = [drainEnd EXCEPT ![u] = how]
    /\ UNCHANGED <<queues, issued, firstInteractions, last>>

\* the end of processQueue's try block
Finish(u, k, how) ==
    /\ queues' = [queues EXCEPT ![u] = <<>>]
    /\ processing' = processing \ {u}
    /\ drain' = [drain EXCEPT ![u][k] = IdleDrain]
    /\ drainEnd' = [drainEnd EXCEPT ![u] = how]
    /\ UNCHANGED <<issued, firstInteractions, last>>

\* the for loop over mediaMessages (pre: the lines logged before it is reached)
MediaLoop(u, k, media, base, pre) ==
    IF media = <<>>
    THEN /\ Finish(u, k, "complete")
         /\ log' = Logged(u, pre)
    ELSE /\ BeginCall(u, k, Head(media), Tail(media), base)
         /\ UNCHANGED <<queues, processing, drainEnd>>

\* processSingleMessage has returned to processQueue
Proceed(u, k, pre) ==
    IF drain[u][k].cur.type = "text"
    THEN MediaLoop(u, k, drain[u][k].media, issued[u], pre)
    ELSE /\ drain' = [drain EXCEPT ![u][k].pc = "delay"]
         /\ log' = Logged(u, pre)
         /\ UNCHANGED <<queues, processing, drainEnd, issued, firstInteractions, last>>

\* processMessage ends with outcome r (step names the error caught, "" when
\* there was none; pre holds the lines logged before that);
\* processSingleMessage sends the text, or the apology when the call threw
EndTurn(u, k, r, step, pre) ==
    LET lines == pre \o (IF step = "" THEN <<>> ELSE <<Failed(step)>>)
    IN /\ turnEnd' = [turnEnd EXCEPT ![u] =
               [st |-> IF step = "" THEN "ok" ELSE "failed",
                ret |-> r, after |-> getThreadId(threads', u)]]
       /\ IF r.throw \/ Truthy(r.val)
          THEN /\ drain' = [drain EXCEPT ![u][k] =
                       [@ EXCEPT !.pc = IF r.throw THEN "apology" ELSE "send",
                                 !.reply = r]]
               /\ log' = Logged(u, lines \o
                            <<Send(IF r.throw THEN Apology ELSE r.val.s)>>)
               /\ UNCHANGED <<queues, processing, drainEnd, issued,
                              firstInteractions, last>>
          ELSE Proceed(u, k, lines)

FailTurn(u, k, step, pre) ==
    /\ UNCHANGED <<threads, file, expect>>
    /\ EndTurn(u, k, processMessageCatch(step), step, pre)

\* the debounce timer fires: processQueue runs up to its first await
TimerFire(u) ==
    /\ timers[u] > 0
    /\ Expired(u)
    /\ \E k \in Slots : drain[u][k].pc = "idle"
    /\ timers' = [timers EXCEPT ![u] = @ - 1]
    /\ snap' = [snap EXCEPT ![u] = queues[u]]
    /\ LET k == FreeSlot(u)
           queue == queues[u]
       IN IF queue = <<>>
          THEN /\ processing' = processing \ {u}
               /\ issued' = [issued EXCEPT ![u] = <<>>]
               /\ drainEnd' = [drainEnd EXCEPT ![u] = "empty"]
               /\ UNCHANGED <<queues, drain, firstInteractions, last, log>>
          ELSE /\ IF textMessages(queue) # <<>>
                  THEN BeginCall(u, k, Text(combinedText(queue)),
                                 mediaMessages(queue), <<>>)
                  ELSE BeginCall(u, k, Head(mediaMessages(queue)),
                                 Tail(mediaMessages(queue)), <<>>)
               /\ drainEnd' = [drainEnd EXCEPT ![u] = "running"]
               /\ UNCHANGED <<queues, processing>>
    /\ clock' = Fired(u)
    /\ UNCHANGED <<threads, file, expect, enq, turnEnd, sample>>

\* createNewThread returns or throws; on success setThreadId stores the id
\* and addMessageToThread is called
CreateDone(u, k, id, ioOk) ==
    /\ drain[u][k].pc = "create"
    /\ LET e == ensureStringThreadId(id)
           r == setThreadId(threads, file, u, e.val, ioOk)
           d == drain[u][k]
           a == Enter(d.cur, d.media, e.val, d.first)
       IN IF e.throw
          THEN FailTurn(u, k, e.err, <<>>)
          ELSE /\ threads' = r.threads
               /\ file' = r.file
               /\ expect' = [expect EXCEPT ![u] = e.val]
               /\ last' = Call("set", u, e.val, r.ret)
               /\ drain' = [drain EXCEPT ![u][k] = a.frame]
               /\ log' = Logged(u, a.lines)
               /\ UNCHANGED <<queues, processing, drainEnd, issued,
                              firstInteractions, turnEnd>>
    /\ UNCHANGED <<timers, enq, snap, sample, clock>>

CreateFail(u, k) ==
    /\ drain[u][k].pc = "create"
    /\ FailTurn(u, k, RemoteError, <<>>)
    /\ UNCHANGED <<timers, enq, snap, sample, clock>>

\* addMessageToThread threw before its await: processMessage resumes in its
\* catch block
Rejected(u, k) ==
    /\ drain[u][k].pc = "rejected"
    /\ FailTurn(u, k, InvalidThreadId, <<>>)
    /\ UNCHANGED <<timers, enq, snap, sample, clock>>

\* a remote call other than the poll returns and the next one is issued
\* (the helpers after addMessageToThread are handed the id it accepted)
Advance(u, k, from, to) ==
    /\ drain[u][k].pc = from
    /\ drain' = [drain EXCEPT ![u][k].pc = to]
    /\ log' = Logged(u,
            (IF from = "poll" THEN <<Status("completed", drain[u][k].attempts + 1)>>
             ELSE <<>>)
            \o <<Remote(CallOf(to), forceString(drain[u][k].threadId), <<>>,
                        IF to = "poll" THEN 1 ELSE 0)>>)
    /\ UNCHANGED <<threads, file, expect, queues, processing, drainEnd, issued,
                   firstInteractions, last, turnEnd, timers, enq, snap, sample, clock>>

\* a helper issuing its remote call again after the call threw
RemoteFailRetries(u, k, from) ==
    /\ drain[u][k].pc = from
    /\ Len(log.lines[u]) < 8
    /\ log' = Logged(u, <<Remote(CallOf(from), forceString(drain[u][k].threadId),
                              <<>>, 0)>>)
    /\ UNCHANGED <<threads, file, expect, queues, processing, drain, drainEnd,
                   issued, firstInteractions, last, turnEnd, timers, enq, snap,
                   sample, clock>>

\* a remote call other than the poll throws
RemoteFail(u, k, from) ==
    /\ drain[u][k].pc = from
    /\ FailTurn(u, k, RemoteError, <<>>)
    /\ UNCHANGED <<timers, enq, snap, sample, clock>>

AppendDone(u, k) == Advance(u, k, "append", "run")
AppendFail(u, k) == RemoteFail(u, k, "append")
\* runAssistant followed by getLatestMessage, with no waitForRunCompletion
RunDoneSkipsPoll(u, k) == Advance(u, k, "run", "fetch")

RunDone(u, k) == Advance(u, k, "run", "poll")
RunFail(u, k) == RemoteFail(u, k, "run")

\* waitForRunCompletion polling once more than maxAttempts allows
PollPendingOnceMore(u, k, status) ==
    /\ drain[u][k].pc = "poll"
    /\ LET d == drain[u][k]
       IN IF d.attempts < maxAttempts
          THEN /\ drain' = [drain EXCEPT ![u][k] =
                       [@ EXCEPT !.attempts = @ + 1]]
               /\ log' = Logged(u, <<Status(status, d.attempts + 1),
                                     Remote("runs.retrieve", forceString(d.threadId),
                                            <<>>, d.attempts + 2)>>)
               /\ UNCHANGED <<threads, file, expect, queues, processing, drainEnd,
                              issued, firstInteractions, last, turnEnd>>
          ELSE FailTurn(u, k, Timeout, <<Status(status, d.attempts + 1)>>)
    /\ UNCHANGED <<timers, enq, snap, sample, clock>>

\* waitForRunCompletion polling for as long as the status is not terminal
PollPendingForever(u, k, status) ==
    /\ drain[u][k].pc = "poll"
    /\ drain' = [drain EXCEPT ![u][k] =
            [@ EXCEPT !.attempts = (@ + 1) % maxAttempts]]
    /\ UNCHANGED <<threads, file, expect, queues, processing, drainEnd, issued,
                   firstInteractions, last, turnEnd, timers, enq, snap, sample, log, clock>>

\* runs.retrieve returns a status that is neither completed nor failed /
\* cancelled / expired: wait a second, count the attempt, poll again or time out
PollPending(u, k, status) ==
    /\ drain[u][k].pc = "poll"
    /\ LET d == drain[u][k]
       IN IF d.attempts + 1 < maxAttempts
          THEN /\ drain' = [drain EXCEPT ![u][k] =
                       [@ EXCEPT !.attempts = @ + 1]]
               /\ log' = Logged(u, <<Status(status, d.attempts + 1),
                                     Remote("runs.retrieve", forceString(d.threadId),
                                            <<>>, d.attempts + 2)>>)
               /\ UNCHANGED <<threads, file, expect, queues, processing, drainEnd,
                              issued, firstInteractions, last, turnEnd>>
          ELSE FailTurn(u, k, Timeout, <<Status(status, d.attempts + 1)>>)
    /\ UNCHANGED <<timers, enq, snap, sample, clock>>

PollCompleted(u, k) == Advance(u, k, "poll", "fetch")

\* waitForRunCompletion going on to read the messages of a run that failed
PollBrokenFetches(u, k, status) ==
    /\ drain[u][k].pc = "poll"
    /\ drain' = [drain EXCEPT ![u][k].pc = "fetch"]
    /\ log' = Logged(u, <<Status(status, drain[u][k].attempts + 1),
                          Remote("messages.list", forceString(drain[u][k].threadId),
                                 <<>>, 0)>>)
    /\ UNCHANGED <<threads, file, expect, queues, processing, drainEnd, issued,
                   firstInteractions, last, turnEnd, timers, enq, snap, sample, clock>>

\* runs.retrieve returns failed, cancelled or expired
PollBroken(u, k, status) ==
    /\ drain[u][k].pc = "poll"
    /\ FailTurn(u, k, RunFailed(status),
                <<Status(status, drain[u][k].attempts + 1)>>)
    /\ UNCHANGED <<timers, enq, snap, sample, clock>>

PollFail(u, k) == RemoteFail(u, k, "poll")

\* getLatestMessage taking whatever message is the latest
getLatestMessageAnyRole(m) ==
    IF m.role = "none" THEN Throw("NoMessage") ELSE Ret(StrV(m.text))

\* getLatestMessage on the listing m
getLatestMessage(m) ==
    IF m.role = "none" THEN Throw("NoMessage")
    ELSE IF m.role # "assistant" THEN Throw("NotAssistant")
    ELSE IF m.type # "text" THEN Throw("NotText")
    ELSE Ret(StrV(m.text))

\* messages.list returns: getLatestMessage, removeCitations,
\* formatForWhatsApp, and processMessage returns
FetchDone(u, k, m) ==
    /\ drain[u][k].pc = "fetch"
    /\ LET r == getLatestMessage(m)
           got == Listed(m)
       IN IF r.throw
          THEN FailTurn(u, k, r.err, <<got>>)
          ELSE /\ UNCHANGED <<threads, file, expect>>
               /\ EndTurn(u, k,
                     Ret(StrV(formatForWhatsApp(removeCitations(r.val.s)))), "",
                     <<got>>)
    /\ UNCHANGED <<timers, enq, snap, sample, clock>>

FetchFail(u, k) == RemoteFail(u, k, "fetch")

\* sock.sendMessage of the reply returns or throws
SendDone(u, k, ok) ==
    /\ drain[u][k].pc = "send"
    /\ IF ok
       THEN Proceed(u, k, <<>>)
       ELSE /\ drain' = [drain EXCEPT ![u][k].pc = "apology"]
            /\ log' = Logged(u, <<SendRejected, Send(Apology)>>)
            /\ UNCHANGED <<queues, processing, drainEnd, issued, firstInteractions, last>>
    /\ UNCHANGED <<threads, file, expect, timers, enq, snap, turnEnd, sample, clock>>

\* the catch block of processQueue clearing every user's buffer
drainCatchAll(u, k) ==
    /\ queues' = [v \in Users |-> <<>>]
    /\ processing' = {}
    /\ drain' = [drain EXCEPT ![u][k] = IdleDrain]
    /\ drainEnd' = [drainEnd EXCEPT ![u] = "aborted"]
    /\ log' = Logged(u, <<SendRejected>>)
    /\ UNCHANGED <<issued, firstInteractions, last>>

\* processQueue without its catch block: the rejection leaves the function
\* and the user stays in processing
drainCatchKeepsFlag(u, k) ==
    /\ queues' = [queues EXCEPT ![u] = <<>>]
    /\ drain' = [drain EXCEPT ![u][k] = IdleDrain]
    /\ drainEnd' = [drainEnd EXCEPT ![u] = "aborted"]
    /\ log' = Logged(u, <<SendRejected>>)
    /\ UNCHANGED <<processing, issued, firstInteractions, last>>

\* the catch block of processQueue
drainCatch(u, k) ==
    /\ Finish(u, k, "aborted")
    /\ log' = Logged(u, <<SendRejected>>)

\* sock.sendMessage of the apology returns, or throws into processQueue's catch
ApologyDone(u, k, ok) ==
    /\ drain[u][k].pc = "apology"
    /\ IF ok THEN Proceed(u, k, <<>>) ELSE drainCatch(u, k)
    /\ UNCHANGED <<threads, file, expect, timers, enq, snap, turnEnd, sample, clock>>

\* the 500 ms pause after a media payload is over
DelayDone(u, k) ==
    /\ drain[u][k].pc = "delay"
    /\ MediaLoop(u, k, drain[u][k].media, issued[u], <<>>)
    /\ UNCHANGED <<threads, file, expect, timers, enq, snap, turnEnd, sample, clock>>

Next ==
    \/ \E u \in Users, t \in Types : addMessage(u, t)
    \/ \E u \in Users : TimerFire(u)
    \/ \E u \in Users, k \in Slots, id \in CreatedIds : CreateDone(u, k, id, TRUE)
    \/ \E u \in Users, k \in Slots : CreateFail(u, k)
    \/ \E u \in Users, k \in Slots : AppendDone(u, k)
    \/ \E u \in Users, k \in Slots : AppendFail(u, k)
    \/ \E u \in Users, k \in Slots : RunDone(u, k)
    \/ \E u \in Users, k \in Slots : RunFail(u, k)
    \/ \E u \in Users, k \in Slots, status \in Pending : PollPending(u, k, status)
    \/ \E u \in Users, k \in Slots : PollCompleted(u, k)
    \/ \E u \in Users, k \in Slots, status \in Broken : PollBroken(u, k, status)
    \/ \E u \in Users, k \in Slots : PollFail(u, k)
    \/ \E u \in Users, k \in Slots, m \in Listings : FetchDone(u, k, m)
    \/ \E u \in Users, k \in Slots : FetchFail(u, k)
    \/ \E u \in Users, k \in Slots, ok \in BOOLEAN : SendDone(u, k, ok)
    \/ \E u \in Users, k \in Slots, ok \in BOOLEAN : ApologyDone(u, k, ok)
    \/ \E u \in Users, k \in Slots : DelayDone(u, k)

\* the bot starts with no threadMap.json
Init ==
    /\ QueueInit
    /\ Construct(FileMissing)
    /\ log = LogOff
    /\ sample = NoSample
    /\ clock = ClockOff

Spec == Init /\ [][Next]_vars

\* ------------------------------------------------------------------------
\* One user's conversation with the logger's lines kept
\* ------------------------------------------------------------------------
Observed == "u1"

InitTurn ==
    /\ QueueInit
    /\ Construct(FileMissing)
    /\ log = LogOn
    /\ sample = NoSample
    /\ clock = ClockOff

NextTurn ==
    \/ \E t \in Types : addMessage(Observed, t)
    \/ TimerFire(Observed)
    \/ \E k \in Slots, id \in CreatedIds, ioOk \in BOOLEAN :
            CreateDone(Observed, k, id, ioOk)
    \/ \E k \in Slots : CreateFail(Observed, k)
    \/ \E k \in Slots : AppendDone(Observed, k)
    \/ \E k \in Slots : AppendFail(Observed, k)
    \/ \E k \in Slots : RunDone(Observed, k)
    \/ \E k \in Slots : RunFail(Observed, k)
    \/ \E k \in Slots, status \in Pending : PollPending(Observed, k, status)
    \/ \E k \in Slots : PollCompleted(Observed, k)
    \/ \E k \in Slots, status \in Broken : PollBroken(Observed, k, status)
    \/ \E k \in Slots : PollFail(Observed, k)
    \/ \E k \in Slots, m \in Listings : FetchDone(Observed, k, m)
    \/ \E k \in Slots : FetchFail(Observed, k)
    \/ \E k \in Slots, ok \in BOOLEAN : SendDone(Observed, k, ok)
    \/ \E k \in Slots, ok \in BOOLEAN : ApologyDone(Observed, k, ok)
    \/ \E k \in Slots : DelayDone(Observed, k)

SpecTurn == InitTurn /\ [][NextTurn]_vars

\* every awaited remote call of processMessage returns or throws, and every
\* awaited sendMessage and pause of processQueue ends
Returns(u) ==
    \/ \E k \in Slots, id \in CreatedIds, ioOk \in BOOLEAN : CreateDone(u, k, id, ioOk)
    \/ \E k \in Slots : CreateFail(u, k)
    \/ \E k \in Slots : AppendDone(u, k) \/ AppendFail(u, k)
    \/ \E k \in Slots : RunDone(u, k) \/ RunFail(u, k)
    \/ \E k \in Slots, status \in Pending : PollPending(u, k, status)
    \/ \E k \in Slots : PollCompleted(u, k) \/ PollFail(u, k)
    \/ \E k \in Slots, status \in Broken : PollBroken(u, k, status)
    \/ \E k \in Slots, m \in Listings : FetchDone(u, k, m)
    \/ \E k \in Slots : FetchFail(u, k)
    \/ \E k \in Slots, ok \in BOOLEAN : SendDone(u, k, ok) \/ ApologyDone(u, k, ok)
    \/ \E k \in Slots : DelayDone(u, k)

\* the conversation of one user in which no await stays pending forever
SpecTurnLive == InitTurn /\ [][NextTurn]_vars /\ WF_vars(Returns(Observed))

\* the conversation of one user in which, besides, the debounce timer fires
SpecQueueLive ==
    /\ InitTurn
    /\ [][NextTurn]_vars
    /\ WF_vars(Returns(Observed))
    /\ WF_vars(TimerFire(Observed))

\* ------------------------------------------------------------------------
\* One user's conversation with the time kept
\* ------------------------------------------------------------------------
InitClock ==
    /\ QueueInit
    /\ Construct(FileMissing)
    /\ log = LogOff
    /\ sample = NoSample
    /\ clock = ClockOn

\* a tick of the clock passes
Tick ==
    /\ clock.on
    /\ clock.now < MaxTime
    /\ clock' = [clock EXCEPT !.now = @ + 1]
    /\ UNCHANGED <<threads, firstInteractions, file, last, expect, log, sample>>
    /\ UNCHANGED queueVars

NextClock ==
    \/ Tick
    \/ NextTurn

SpecClock == InitClock /\ [][NextClock]_vars

\* ------------------------------------------------------------------------
\* The helper chain of processMessage entered with an arbitrary thread id
\* ------------------------------------------------------------------------
\* addMessageToThread, runAssistant, waitForRunCompletion and getLatestMessage
\* are awaited in turn for the id v and one text
Execute(u, v) ==
    /\ \A k \in Slots : drain[u][k].pc = "idle"
    /\ u \notin processing
    /\ LET e == Enter(Text(Ordinal(1)), <<>>, v, FALSE)
       IN /\ drain' = [drain EXCEPT ![u][FreeSlot(u)] = e.frame]
          /\ log' = LoggedAnew(u,
                <<Entered(StrV(forceString(v)), Ordinal(1))>> \o e.lines)
    /\ UNCHANGED <<threads, firstInteractions, file, last, expect, queues,
                   processing, timers, enq, snap, issued, drainEnd, turnEnd, sample, clock>>

NextDriver ==
    \/ \E v \in SetInputs : Execute(Observed, v)
    \/ \E k \in Slots : Rejected(Observed, k)
    \/ \E k \in Slots : AppendDone(Observed, k)
    \/ \E k \in Slots : AppendFail(Observed, k)
    \/ \E k \in Slots : RunDone(Observed, k)
    \/ \E k \in Slots : RunFail(Observed, k)
    \/ \E k \in Slots, status \in Pending : PollPending(Observed, k, status)
    \/ \E k \in Slots : PollCompleted(Observed, k)
    \/ \E k \in Slots, status \in Broken : PollBroken(Observed, k, status)
    \/ \E k \in Slots : PollFail(Observed, k)
    \/ \E k \in Slots, m \in Listings : FetchDone(Observed, k, m)
    \/ \E k \in Slots : FetchFail(Observed, k)
    \/ \E k \in Slots, ok \in BOOLEAN : SendDone(Observed, k, ok)
    \/ \E k \in Slots, ok \in BOOLEAN : ApologyDone(Observed, k, ok)

SpecDriver == InitTurn /\ [][NextDriver]_vars

\* ------------------------------------------------------------------------
\* removeCitations applied to a text
\* ------------------------------------------------------------------------
MaxPieces == 4          \* pieces a sample text is put together from

\* Pieces of reply text: plain characters, the citation shapes, and loose
\* brackets and digits
Pieces ==
    { <<"a">>, <<" ">>,
      <<"[", "1", "]">>, <<"(", "2", ")">>,
      <<"[", "1", ":", "0", "]">>, <<"(", "1", ":", "0", ")">>,
      <<OpenL, "4", Dagger, "s", "o", "u", "r", "c", "e", CloseL>>,
      <<OpenL, "4", ":", "0", Dagger, "f", CloseL>>,
      <<"[">>, <<"]">>, <<"(">>, <<")">>, <<"5">> }

RECURSIVE TextsOf(_)
\* the texts made of at most n pieces
TextsOf(n) ==
    IF n = 0 THEN {<<>>}
    ELSE LET shorter == TextsOf(n - 1)
         IN shorter \cup {t \o p : t \in shorter, p \in Pieces}

InitSanitize ==
    /\ QueueInit
    /\ Construct(FileMissing)
    /\ log = LogOff
    /\ \E t \in TextsOf(MaxPieces) :
            sample = [text |-> t, out |-> <<>>, done |-> FALSE]
    /\ clock = ClockOff

\* processMessage hands the assistant's text to removeCitations
RemoveCitations ==
    /\ ~sample.done
    /\ sample' = [sample EXCEPT !.out = removeCitations(sample.text), !.done = TRUE]
    /\ UNCHANGED <<threads, firstInteractions, file, last, expect, log, clock>>
    /\ UNCHANGED queueVars

NextSanitize == RemoveCitations

SpecSanitize == InitSanitize /\ [][NextSanitize]_vars

\* the citation shapes: the lenticular bracket with a number and a tag,
\* [N], [N:M], (N) and (N:M)
CitationForms ==
    { NumTag(OpenL, CloseL), PairTag(OpenL, CloseL),
      Num("[", "]"), Pair("[", "]"), Num("(", ")"), Pair("(", ")") }

HasCitation(s) ==
    \E i \in 1..Len(s), p \in CitationForms : MatchEnd(p, 1, s, i) # 0

\* C20: the result of removeCitations for a text that holds a citation shape
\* holds none of the citation shapes.
C20_NoCitationLeft ==
    (sample.done /\ HasCitation(sample.text)) => ~HasCitation(sample.out)

\* ------------------------------------------------------------------------
\* Properties of the ThreadManager
\* ------------------------------------------------------------------------
ValidEntry(v) == v.t = "string" /\ isValidThreadId(v)

\* C7: a setThreadId(u, id) with an id that passes the validator, followed by
\* getThreadId(u) with no setThreadId / removeThread for u in between,
\* returns the id in its canonical string form.
C7_SetThenGet ==
    (last.op = "get" /\ expect[last.u] # NoEntry) => last.ret = Ret(expect[last.u])

C7_Witness ==
    /\ last.op = "get"
    /\ expect[last.u] = StrV(IdB)
    /\ last.ret = Ret(StrV(IdB))

\* C8: setThreadId with a malformed id throws the invalid-id error and leaves
\* the registry and the persisted file as they were.
C8_InvalidSetRejected ==
    [][(last'.op = "set" /\ ~isValidThreadId(last'.arg))
        => (/\ last'.ret = Throw("InvalidThreadId")
            /\ threads' = threads
            /\ file' = file)]_vars

C8_Witness ==
    /\ last.op = "set"
    /\ last.arg = ObjV(<<>>)
    /\ last.ret.throw
    /\ threads[last.u] = StrV(IdA)
    /\ file = FileOk(threads)

\* C9: right after construction no invalid entry is visible through
\* getThreadId and the persisted file holds exactly the valid entries.
C9_LoadRewritesFile ==
    (last.op = "load" /\ file.st = "ok") =>
        \A u \in Users :
            /\ getThreadId(threads, u) # NullV => ValidEntry(getThreadId(threads, u))
            /\ file.m[u] # NoEntry => isValidThreadId(file.m[u])
            /\ (file.m[u] # NoEntry) <=> (threads[u] # NoEntry)

\* C10: every value held in the registry passes the validator and
\* getThreadId answers null or an id that passes the validator.
C10_RegistryValid ==
    /\ \A u \in Users : threads[u] = NoEntry \/ ValidEntry(threads[u])
    /\ last.op = "get" => (last.ret.val = NullV \/ ValidEntry(last.ret.val))

C10_Witness ==
    /\ last.op = "get"
    /\ last.ret = Ret(NullV)
    /\ file.st = "ok"
    /\ file.m[last.u] = StrV(IdShort)

\* C11: removeThread never throws, a user without an entry included; it
\* leaves the user without an entry and every other entry as it was, so a
\* second call leaves the registry exactly as the first one did.
C11_RemoveIdempotent ==
    [][last'.op = "remove"
        => (/\ ~last'.ret.throw
            /\ threads' = [threads EXCEPT ![last'.u] = NoEntry]
            /\ getThreadId(threads', last'.u) = NullV
            /\ (threads[last'.u] = NoEntry => threads' = threads))]_vars

C11_Witness ==
    /\ last.op = "remove"
    /\ last.arg = NoEntry
    /\ ~last.ret.throw
    /\ \E v \in Users \ {last.u} : threads[v] = StrV(IdA)

\* C12: isFirstInteraction(u) returns true exactly when getThreadId(u)
\* returns null.
C12_FirstIffAbsent ==
    last.op = "isFirst" =>
        last.ret = Ret(BoolV(getThreadId(threads, last.u) = NullV))

C12_Witness ==
    /\ last.op = "isFirst"
    /\ last.ret = Ret(BoolV(FALSE))
    /\ last.u \in firstInteractions
    /\ threads[last.u] = StrV(IdB)

\* C13: a setThreadId with a valid id or a removeThread whose write of the
\* file fails (the file is left as it was, differing from the registry) does
\* not throw: setThreadId returns the canonical id, the registry holds the
\* change, and getThreadId answers from the registry whatever the file holds.
C13_SaveFailureNonFatal ==
    /\ [][(/\ last'.op \in {"set", "remove"}
           /\ (last'.op = "set" => isValidThreadId(last'.arg))
           /\ file' # FileOk(threads'))
          => (/\ ~last'.ret.throw
              /\ file' = file
              /\ (last'.op = "set" =>
                    (/\ last'.ret.val = StrV(forceString(last'.arg))
                     /\ getThreadId(threads', last'.u) = last'.ret.val))
              /\ (last'.op = "remove" =>
                    getThreadId(threads', last'.u) = NullV))]_vars
    /\ [](last.op = "get" => last.ret = Ret(getThreadId(threads, last.u)))

C13_Witness ==
    /\ last.op = "get"
    /\ last.ret = Ret(StrV(IdB))
    /\ file = FileMissing

\* C27: with writes that succeed, when setThreadId(u, id) returns, the file
\* holds exactly the registry, every user's entry included, and the value
\* returned is the id as a string, which is also u's entry.
C27_SetPersistsWhole ==
    (last.op = "set" /\ ~last.ret.throw) =>
        (/\ file = FileOk(threads)
         /\ last.ret.val = StrV(forceString(last.arg))
         /\ threads[last.u] = last.ret.val)

C27_Witness ==
    /\ last = Call("set", "u1", ObjV(IdB), Ret(StrV(IdB)))
    /\ threads = [u \in Users |-> IF u = "u1" THEN StrV(IdB) ELSE StrV(IdA)]
    /\ file = FileOk(threads)

\* C28 as stated: a call of isFirstInteraction leaves the registry, the
\* firstInteractions set and the file as they were.
C28_IsFirstPure ==
    [][(last'.op = "isFirst") =>
            (/\ threads' = threads
             /\ firstInteractions' = firstInteractions
             /\ file' = file)]_vars

\* C28: a call of isFirstInteraction(u) leaves the registry and the file as
\* they were; it adds u to the firstInteractions set when it answers true and
\* leaves the set as it was when it answers false.
C28_IsFirstAddsToSet ==
    [][(last'.op = "isFirst") =>
            (/\ threads' = threads
             /\ file' = file
             /\ firstInteractions' =
                    IF last'.ret.val = BoolV(TRUE)
                    THEN firstInteractions \cup {last'.u}
                    ELSE firstInteractions)]_vars

C28_Witness ==
    /\ last = Call("isFirst", "u1", UndefV, Ret(BoolV(TRUE)))
    /\ firstInteractions = {"u1"}
    /\ threads["u1"] = NoEntry
    /\ threads["u2"] = StrV(IdA)

\* ------------------------------------------------------------------------
\* Properties of processMessage and the MessageQueue
\* ------------------------------------------------------------------------
\* C1: a processMessage call in which a step failed leaves the user without
\* a stored thread and returns the fixed apology.
C1_FailureResetsSession ==
    \A u \in Users :
        turnEnd[u].st = "failed" =>
            /\ turnEnd[u].after = NullV
            /\ turnEnd[u].ret = Ret(StrV(Apology))

\* C2: processMessage never throws: it returns a string, and the fixed
\* apology whenever a step failed.
C2_NeverRaises ==
    \A u \in Users :
        turnEnd[u].st # "none" =>
            /\ ~turnEnd[u].ret.throw
            /\ turnEnd[u].ret.val.t = "string"
            /\ turnEnd[u].st = "failed" => turnEnd[u].ret.val = StrV(Apology)

C2_Witness ==
    /\ turnEnd["u1"].st = "failed"
    /\ turnEnd["u1"].ret = Ret(StrV(Apology))
    /\ turnEnd["u2"].st = "ok"
    /\ turnEnd["u2"].ret = Ret(StrV(<<"o", "k">>))

\* C3: at most one processMessage call per user is in progress.
C3_OneCallPerUser ==
    \A u \in Users : Cardinality({k \in Slots : drain[u][k].pc \in InTurn}) <= 1

C3_Witness ==
    \E u \in Users, k \in Slots :
        /\ drain[u][k].pc \in InTurn
        /\ Len(queues[u]) > Len(snap[u])
        /\ timers[u] = 0

\* the payloads of q of type text / not of type text, in arrival order
TextOf(q) == SelectSeq(q, LAMBDA p : p.type = "text")
MediaOf(q) == SelectSeq(q, LAMBDA p : p.type # "text")

\* the contents of q, each one character long, with single spaces in between
SpaceJoined(q) ==
    [i \in 1..(2 * Len(q) - 1) |->
        IF i % 2 = 1 THEN q[(i + 1) \div 2].content[1] ELSE " "]

Drained(u) == drainEnd[u] \in {"running", "complete", "aborted"}

\* C4: the text payloads a drain finds in the buffer make exactly one
\* processMessage call, with their contents joined by single spaces in
\* arrival order.
C4_TextsMerged ==
    \A u \in Users :
        (Drained(u) /\ TextOf(snap[u]) # <<>>) =>
            /\ Len(TextOf(issued[u])) = 1
            /\ issued[u][1] = Text(SpaceJoined(TextOf(snap[u])))

C4_Witness ==
    \E u \in Users :
        /\ drainEnd[u] = "complete"
        /\ Len(snap[u]) = 3
        /\ issued[u] = <<Text(<<"1", " ", "2", " ", "3">>)>>

IsPrefix(a, b) == Len(a) <= Len(b) /\ SubSeq(b, 1, Len(a)) = a

\* the calls a drain over the buffer q makes, in order
CallOrder(q) ==
    (IF TextOf(q) = <<>> THEN <<>> ELSE <<Text(SpaceJoined(TextOf(q)))>>) \o MediaOf(q)

\* C5: the drains of a user do not overlap, and the calls of a drain are the
\* merged text call first, then one call per media payload in arrival order.
C5_CallOrder ==
    \A u \in Users :
        /\ Cardinality({k \in Slots : drain[u][k].pc # "idle"}) <= 1
        /\ Drained(u) => IsPrefix(issued[u], CallOrder(snap[u]))
        /\ drainEnd[u] = "complete" => issued[u] = CallOrder(snap[u])

C5_Witness ==
    \E u \in Users :
        /\ drainEnd[u] = "complete"
        /\ snap[u] = <<Payload("image", 1), Payload("text", 2), Payload("image", 3)>>
        /\ issued[u] = <<Text(<<"2">>), Payload("image", 1), Payload("image", 3)>>

QueueStateOf(u) == <<queues[u], u \in processing, timers[u], drain[u]>>

\* C6: a step of one user's drain, a failing one included, leaves every other
\* user's buffer, processing flag, timer and drain as they were, and a drain
\* that runs to its end has submitted all the payloads it found.
C6_DrainsIndependent ==
    /\ [][\A a \in Users :
            drain'[a] # drain[a] =>
                \A b \in Users \ {a} : QueueStateOf(b)' = QueueStateOf(b)]_vars
    /\ [](\A b \in Users : drainEnd[b] = "complete" => issued[b] = CallOrder(snap[b]))

C6_Witness ==
    /\ drainEnd["u1"] = "aborted"
    /\ turnEnd["u1"].st = "failed"
    /\ drainEnd["u2"] = "complete"
    /\ Len(snap["u2"]) = 2
    /\ issued["u2"] = CallOrder(snap["u2"])

\* ------------------------------------------------------------------------
\* Properties of the helper chain, read off the logger's lines
\* ------------------------------------------------------------------------
LinesOf(u) == log.lines[u]
Of(l, evs) == SelectSeq(l, LAMBDA x : x.ev \in evs)
Errors(l) == Of(l, {"error"})
RemoteCalls(l) ==
    Of(l, {"threads.create", "messages.create", "runs.create", "runs.retrieve",
           "messages.list"})
EmptyReply == {"NoMessage", "NotAssistant", "NotText"}

\* C14: a run whose every poll returns a non-terminal status is polled exactly
\* maxAttempts times, then the timeout error is thrown; no poll and no
\* messages.list follows, and no run is ever polled more than maxAttempts times.
C14_PollBound ==
    \A u \in Users :
        LET l == LinesOf(u)
            polls == Of(l, {"runs.retrieve"})
            seen == Of(l, {"run.status"})
            allPending == \A i \in 1..Len(seen) : seen[i].text[1] \in Pending
        IN /\ Len(polls) <= maxAttempts
           /\ \A i \in 1..Len(polls) : polls[i].n = i
           /\ (Len(seen) = maxAttempts /\ allPending) =>
                (/\ Errors(l) = <<Failed(Timeout)>>
                 /\ Len(polls) = maxAttempts
                 /\ Of(l, {"messages.list"}) = <<>>
                 /\ \A i, j \in 1..Len(l) :
                        (l[i].ev = "error" /\ l[j].ev \in {"runs.retrieve", "messages.list"})
                            => j < i)
           /\ (Failed(Timeout) \in {l[i] : i \in 1..Len(l)}) =>
                (Len(seen) = maxAttempts /\ allPending)

C14_Witness ==
    LET l == LinesOf(Observed)
    IN /\ Errors(l) = <<Failed(Timeout)>>
       /\ Len(Of(l, {"runs.retrieve"})) = maxAttempts
       /\ turnEnd[Observed].st = "failed"

\* C15: a poll that returns failed, cancelled or expired makes the helper
\* throw the run-failed error of that status at once; no poll follows and
\* messages.list is never called in that processMessage call.
C15_RunFailed ==
    \A u \in Users :
        LET l == LinesOf(u)
        IN \A i \in 1..Len(l) :
            (l[i].ev = "run.status" /\ l[i].text[1] \in Broken) =>
                (/\ i < Len(l)
                 /\ l[i + 1] = Failed(RunFailed(l[i].text[1]))
                 /\ Errors(l) = <<l[i + 1]>>
                 /\ \A j \in (i + 1)..Len(l) : l[j].ev # "runs.retrieve"
                 /\ Of(l, {"messages.list", "messages.list.data"}) = <<>>)

C15_Witness ==
    LET l == LinesOf(Observed)
    IN /\ Status("cancelled", 2) \in {l[i] : i \in 1..Len(l)}
       /\ Errors(l) = <<Failed("RunFailed{cancelled}")>>
       /\ turnEnd[Observed].st = "failed"

\* C16: the helper chain entered with a thread id that fails isValidThreadId
\* throws the invalid-id error before messages.create, runs.create,
\* runs.retrieve or messages.list is called.
C16_InvalidIdNoRemoteCall ==
    \A u \in Users, k \in Slots :
        LET d == drain[u][k]
            l == LinesOf(u)
        IN (d.pc # "idle" /\ ~isValidThreadId(d.threadId)) =>
            (/\ RemoteCalls(l) = <<>>
             /\ d.pc \in {"rejected", "send", "apology"}
             /\ d.pc # "rejected" => Errors(l) = <<Failed(InvalidThreadId)>>)

C16_Witness ==
    \E k \in Slots :
        /\ drain[Observed][k].threadId = StrV(IdShort)
        /\ drain[Observed][k].pc = "send"
        /\ Errors(LinesOf(Observed)) = <<Failed(InvalidThreadId)>>
        /\ RemoteCalls(LinesOf(Observed)) = <<>>

\* C17: messages.list is called once, right after the first poll that returns
\* completed; the text of the latest message is what processMessage goes on
\* with when that message is an assistant message with text content, and an
\* empty-reply error is thrown when the list is empty, the latest message is
\* not the assistant's, or its content is not text.
C17_CompletedFetch ==
    \A u \in Users :
        LET l == LinesOf(u)
        IN /\ Len(Of(l, {"messages.list"})) <= 1
           /\ \A i \in 1..Len(l) :
                /\ (l[i].ev = "run.status" /\ l[i].text[1] = "completed") =>
                        (/\ i < Len(l)
                         /\ l[i + 1].ev = "messages.list"
                         /\ \A j \in 1..(i - 1) :
                                l[j].ev = "run.status" => l[j].text[1] \in Pending)
                /\ l[i].ev = "messages.list" =>
                        (i > 1 /\ l[i - 1].ev = "run.status"
                               /\ l[i - 1].text[1] = "completed")
                /\ l[i].ev = "messages.list.data" =>
                        IF l[i].id = <<"assistant", "text">>
                        THEN /\ Errors(l) = <<>>
                             /\ turnEnd[u].st = "ok"
                             /\ turnEnd[u].ret =
                                    Ret(StrV(formatForWhatsApp(removeCitations(l[i].text))))
                        ELSE /\ Len(Errors(l)) = 1
                             /\ Errors(l)[1].err \in EmptyReply
                             /\ turnEnd[u].st = "failed"

C17_Witness ==
    LET l == LinesOf(Observed)
    IN /\ Listed(Listing("assistant", "text", <<"o", "k", " ", "[", "1", "]">>))
            \in {l[i] : i \in 1..Len(l)}
       /\ Len(Of(l, {"runs.retrieve"})) = 2
       /\ turnEnd[Observed].ret = Ret(StrV(<<"o", "k">>))

\* ------------------------------------------------------------------------
\* Properties of processMessage and processSingleMessage, read off the lines
\* ------------------------------------------------------------------------
\* the texts processMessage returns when nothing failed
ReplyTexts(l) ==
    {formatForWhatsApp(removeCitations(l[i].text)) :
        i \in {j \in 1..Len(l) : l[j].ev = "messages.list.data"}}

\* C18: every text handed to sock.sendMessage is the fixed apology or the
\* formatted text of the assistant's message; after a processMessage call in
\* which a step failed only the apology is handed over, and exactly one such
\* message is accepted by the transport, or none when the transport rejected
\* the apology twice.
C18_OneApology ==
    \A u \in Users :
        LET l == LinesOf(u)
            sends == Of(l, {"sendMessage"})
            rejects == Of(l, {"sendMessage.rejected"})
        IN /\ \A i \in 1..Len(sends) :
                sends[i].text \in {Apology} \cup ReplyTexts(l)
           /\ Errors(l) # <<>> =>
                (/\ \A i \in 1..Len(sends) : sends[i].text = Apology
                 /\ Len(sends) >= 1
                 /\ Len(sends) - Len(rejects) \in {0, 1}
                 /\ Len(sends) = Len(rejects) => Len(rejects) = 2)

C18_Witness ==
    LET l == LinesOf(Observed)
    IN /\ Errors(l) = <<Failed(RemoteError)>>
       /\ Of(l, {"sendMessage"}) = <<Send(Apology)>>
       /\ Of(l, {"sendMessage.rejected"}) = <<>>
       /\ drainEnd[Observed] = "complete"

\* C19: a processMessage call for a user without a stored thread calls
\* threads.create, stores the id it gets and hands messages.create the text
\* with the first-interaction framing; a call for a user with a stored thread
\* calls no threads.create and hands messages.create the stored id, the one
\* the previous call left, and the text with the continuation framing.
C19_FirstThenContinue ==
    \A u \in Users :
        LET l == LinesOf(u)
            InCall == \E k \in Slots : drain[u][k].pc \in InTurn
            Suspended == \E k \in Slots : drain[u][k].pc \in InTurn \ {"create"}
        IN l # <<>> =>
            /\ l[1].ev = "processMessage"
            /\ (InCall /\ turnEnd[u].st # "none") => l[1].id = turnEnd[u].after.s
            /\ Suspended => Len(Of(l, {"messages.create"})) = 1
            /\ IF l[1].id = <<>>
               THEN /\ Len(l) > 1 /\ l[2].ev = "threads.create"
                    /\ Len(Of(l, {"threads.create"})) = 1
                    /\ \A i \in 1..Len(l) : l[i].ev = "messages.create" =>
                        /\ i = 3
                        /\ threads[u] = StrV(l[i].id)
                        /\ l[i].text = <<FirstFraming>> \o l[1].text
               ELSE /\ Of(l, {"threads.create"}) = <<>>
                    /\ threads[u] = StrV(l[1].id)
                    /\ \A i \in 1..Len(l) : l[i].ev = "messages.create" =>
                        /\ i = 2
                        /\ l[i].id = l[1].id
                        /\ l[i].text = <<ContinuedFraming>> \o l[1].text

C19_Witness ==
    LET l == LinesOf(Observed)
    IN /\ \E k \in Slots : drain[Observed][k].pc = "run"
       /\ turnEnd[Observed].st = "ok"
       /\ turnEnd[Observed].after = StrV(IdA)
       /\ Len(l) > 1
       /\ l[1].id = IdA
       /\ l[2] = Remote("messages.create", IdA, <<ContinuedFraming>> \o l[1].text, 0)

\* ------------------------------------------------------------------------
\* Order of the remote calls of one processMessage call
\* ------------------------------------------------------------------------
\* the place of a remote call in processMessage
Rank(ev) ==
    CASE ev = "threads.create" -> 1
      [] ev = "messages.create" -> 2
      [] ev = "runs.create" -> 3
      [] ev = "runs.retrieve" -> 4
      [] OTHER -> 5

\* C21: the remote calls of one processMessage call are threads.create (only
\* for a user without a thread), messages.create, runs.create, one or more
\* runs.retrieve and, only after a status completed, messages.list, in that
\* order; a call is issued only when the one before has returned, and none is
\* issued after an error or after messages.list has returned.
C21_CallSequence ==
    \A u \in Users :
        LET l == LinesOf(u)
            c == RemoteCalls(l)
            waiting == {k \in Slots : drain[u][k].pc \in InTurn}
        IN /\ (c # <<>>) => (Rank(c[1].ev) \in {1, 2})
           /\ \A i \in 1..(Len(c) - 1) :
                \/ Rank(c[i + 1].ev) = Rank(c[i].ev) + 1
                \/ (c[i].ev = "runs.retrieve" /\ c[i + 1].ev = "runs.retrieve")
           /\ \A i \in 1..Len(l) :
                (l[i].ev = "messages.list") =>
                    (i > 1 /\ l[i - 1] = Status("completed", l[i - 1].n))
           /\ \A i, j \in 1..Len(l) :
                (l[i].ev \in {"error", "messages.list.data"} /\ i < j) =>
                    (Rank(l[j].ev) = 5 /\ l[j].ev # "messages.list")
           /\ Cardinality(waiting) <= 1
           /\ \A k \in waiting :
                (l # <<>> /\ l[Len(l)].ev = CallOf(drain[u][k].pc))
           /\ (waiting = {} /\ l # <<>>) =>
                (l[Len(l)].ev \notin {"threads.create", "messages.create",
                                       "runs.create", "runs.retrieve", "messages.list"})

C21_Witness ==
    LET l == LinesOf(Observed)
        c == RemoteCalls(l)
    IN /\ [i \in 1..Len(c) |-> c[i].ev] =
            <<"threads.create", "messages.create", "runs.create",
              "runs.retrieve", "runs.retrieve", "messages.list">>
       /\ turnEnd[Observed].st = "ok"
       /\ \A k \in Slots : drain[Observed][k].pc \notin InTurn

\* ------------------------------------------------------------------------
\* Properties of addMessage, startDebounce and processQueue
\* ------------------------------------------------------------------------
\* a step in which addMessage(u, ...) is called
Enqueued(u) == enq'[u] = enq[u] + 1

\* a step in which u's buffer or u's processing flag is cleared
Cleared(u) ==
    \/ (queues[u] # <<>> /\ queues'[u] = <<>>)
    \/ (u \in processing /\ u \notin processing')

\* C22: processQueue clears the user's buffer and processing flag only when
\* every call of the drain (the merged text call and one call per media
\* payload) has been made, and an addMessage after the drain starts a new
\* debounce timer, whose processQueue finds that payload in the buffer.
C22_ClearedAfterDispatch ==
    [][\A u \in Users :
        /\ Cleared(u) => (issued'[u] = CallOrder(snap'[u]))
        /\ (Enqueued(u) /\ u \notin processing) =>
                (/\ timers'[u] = timers[u] + 1
                 /\ u \in processing')
        /\ (timers'[u] < timers[u]) => (snap'[u] = queues[u])]_vars

\* C23 as stated: addMessage appends the payload, and starts a timer and sets
\* the processing flag exactly when the user has no pending timer; a user has
\* at most one pending timer.
C23_TimerIffNoTimer ==
    /\ [][\A u \in Users :
            Enqueued(u) =>
                (/\ Len(queues'[u]) = Len(queues[u]) + 1
                 /\ SubSeq(queues'[u], 1, Len(queues[u])) = queues[u]
                 /\ (timers'[u] = timers[u] + 1) <=> (timers[u] = 0))]_vars
    /\ [](\A u \in Users : timers[u] <= 1)

\* C23: addMessage appends the payload, and starts a timer and sets the
\* processing flag exactly when the processing flag is not set (it is set
\* while a timer is pending and while processQueue runs); a user has at most
\* one pending timer.
C23_TimerIffNotProcessing ==
    /\ [][\A u \in Users :
            Enqueued(u) =>
                (/\ Len(queues'[u]) = Len(queues[u]) + 1
                 /\ SubSeq(queues'[u], 1, Len(queues[u])) = queues[u]
                 /\ u \in processing'
                 /\ (timers'[u] = timers[u] + 1) <=> (u \notin processing)
                 /\ (timers'[u] = timers[u]) <=> (u \in processing))]_vars
    /\ [](\A u \in Users :
            /\ timers[u] <= 1
            /\ (timers[u] = 1) => (u \in processing))

C23_Witness ==
    \E u \in Users :
        /\ timers[u] = 0
        /\ u \in processing
        /\ drainEnd[u] = "running"
        /\ Len(queues[u]) = Len(snap[u]) + 2

\* C24: when a drain is over, every payload it found in the buffer has been
\* handed to processMessage, whatever failed on the way (a processMessage
\* step, the sending of the reply, the sending of the apology).
C24_FailureKeepsDraining ==
    \A u \in Users :
        (drainEnd[u] \in {"complete", "aborted"}) =>
            (Len(issued[u]) = Len(CallOrder(snap[u])))

\* the lines of l that are remote calls named ev
Calls(l, ev) == Of(l, {ev})

\* C25: in one processMessage call messages.create, runs.create and
\* messages.list are each called at most once; an error thrown by a remote
\* call reaches processMessage's catch block as it is, the call that threw is
\* the last remote call of the processMessage call, and no second error follows.
C25_NoRetry ==
    \A u \in Users :
        LET l == LinesOf(u)
        IN /\ Len(Calls(l, "messages.create")) <= 1
           /\ Len(Calls(l, "runs.create")) <= 1
           /\ Len(Calls(l, "messages.list")) <= 1
           /\ Len(Errors(l)) <= 1
           /\ \A i \in 1..Len(l) :
                (l[i] = Failed(RemoteError)) =>
                    (/\ i > 1
                     /\ l[i - 1].ev = RemoteCalls(l)[Len(RemoteCalls(l))].ev
                     /\ \A j \in (i + 1)..Len(l) :
                            l[j].ev \in {"sendMessage", "sendMessage.rejected"}
                     /\ turnEnd[u].st = "failed")

C25_Witness ==
    LET l == LinesOf(Observed)
    IN /\ Errors(l) = <<Failed(RemoteError)>>
       /\ Len(Calls(l, "runs.retrieve")) = 2
       /\ \E i \in 2..Len(l) : l[i].ev = "error" /\ l[i - 1].ev = "runs.retrieve"
       /\ Len(Calls(l, "messages.create")) = 1
       /\ Len(Calls(l, "runs.create")) = 1

\* C26: when no awaited call stays pending forever, a processMessage call
\* that is suspended in a remote call comes to its end (it returns the reply
\* or the apology), whatever statuses runs.retrieve reports, and it never
\* counts more than maxAttempts polls.
C26_TurnTerminates ==
    /\ \A k \in Slots :
            (drain[Observed][k].pc \in InTurn) ~> (drain[Observed][k].pc \notin InTurn)
    /\ [](\A k \in Slots :
            /\ drain[Observed][k].attempts < maxAttempts
            /\ Len(Of(LinesOf(Observed), {"runs.retrieve"})) <= maxAttempts)

C26_Witness ==
    \E k \in Slots :
        /\ drain[Observed][k].pc = "poll"
        /\ drain[Observed][k].attempts = maxAttempts - 1
        /\ Of(LinesOf(Observed), {"run.status"}) =
                <<Status("in_progress", 1)>>

\* ------------------------------------------------------------------------
\* isFirstInteraction over the processMessage calls of a user
\* ------------------------------------------------------------------------
\* the frames of u's processMessage calls that are suspended in a remote call
Turns(u) == {drain[u][k] : k \in {j \in Slots : drain[u][j].pc \in InTurn}}

\* C29 as stated: of the processMessage calls of a user, the first one and no
\* other is answered true by isFirstInteraction.
C29_FirstOnce ==
    \A u \in Users : \A d \in Turns(u) :
        d.first <=> (turnEnd[u].st = "none")

\* C29: isFirstInteraction answers true in every processMessage call that
\* starts with no thread stored for the user, the user's first call and
\* every call that follows one in which no thread was stored (threads.create
\* threw or returned no usable id), and false in every call after a thread
\* was stored; a call answered true that gets past threads.create has stored
\* the thread.
C29_FirstUntilStored ==
    \A u \in Users : \A d \in Turns(u) :
        /\ d.first <=> (turnEnd[u].st = "none" \/ turnEnd[u].after = NullV)
        /\ (d.first /\ d.pc # "create") =>
                (threads[u] = d.threadId /\ getThreadId(threads, u) # NullV)
        /\ (~d.first) => (threads[u] = turnEnd[u].after)

C29_Witness ==
    \E d \in Turns(Observed) :
        /\ d.first
        /\ d.pc = "run"
        /\ turnEnd[Observed].st = "failed"
        /\ turnEnd[Observed].after = NullV
        /\ threads[Observed] = StrV(IdA)

\* ------------------------------------------------------------------------
\* The time processQueue runs at
\* ------------------------------------------------------------------------
\* C30 as stated: processQueue runs no earlier than debounceTime after the
\* latest addMessage of the user before it.
C30_QuietPeriod ==
    \A u \in Users :
        (clock.fired[u] >= 0) =>
            (clock.fired[u] >= clock.quiet[u] + debounceTime)

\* C30: processQueue runs no earlier than debounceTime after the addMessage
\* that called startDebounce, the first payload of the buffer it reads; an
\* addMessage while the timer is pending does not start the timer again, so
\* the latest addMessage before processQueue lies between the two.
C30_WindowFromFirst ==
    \A u \in Users :
        /\ (clock.fired[u] >= 0) =>
                (/\ clock.fired[u] >= clock.opened[u] + debounceTime
                 /\ clock.opened[u] >= 0
                 /\ clock.opened[u] <= clock.quiet[u]
                 /\ clock.quiet[u] <= clock.fired[u])
        /\ (timers[u] > 0) =>
                (/\ queues[u] # <<>>
                 /\ clock.due[u] = clock.started[u] + debounceTime
                 /\ clock.started[u] <= clock.arrived[u])

C30_Witness ==
    /\ clock.opened[Observed] = 1
    /\ clock.quiet[Observed] = 2
    /\ clock.fired[Observed] = 3
    /\ Len(snap[Observed]) = 2
    /\ drainEnd[Observed] = "running"

\* ------------------------------------------------------------------------
\* What becomes of the payloads handed to addMessage
\* ------------------------------------------------------------------------
\* the payload p is part of one of the processMessage calls
Included(p, calls) ==
    \E i \in 1..Len(calls) :
        IF p.type = "text"
        THEN /\ calls[i].type = "text"
             /\ \E j \in 1..Len(calls[i].content) : <<calls[i].content[j]>> = p.content
        ELSE calls[i] = p

\* C31: a payload leaves the buffer only when it has been part of a
\* processMessage call of the drain that clears the buffer, a payload pushed
\* while that drain was running included.
C31_NoPayloadLost ==
    [][\A u \in Users :
        (queues[u] # <<>> /\ queues'[u] = <<>>) =>
            (\A i \in 1..Len(queues[u]) : Included(queues[u][i], issued'[u]))]_vars

\* the place of the payload p among the payloads of its user
Arrival(p) == CHOOSE n \in 0..9 : Ordinal(n) = p.content

\* the processMessage calls that the payload p is part of
CallsWith(p, calls) ==
    {i \in 1..Len(calls) :
        \E j \in 1..Len(calls[i].content) : <<calls[i].content[j]>> = p.content}

\* C32: a payload read by a drain is part of at most one processMessage call
\* of that drain, and the payloads a drain reads all came after the payloads
\* the drain before it read, so no payload is part of the calls of two drains.
C32_NoPayloadTwice ==
    /\ [](\A u \in Users :
            /\ \A i \in 1..Len(snap[u]) :
                    Cardinality(CallsWith(snap[u][i], issued[u])) <= 1
            /\ \A i, j \in 1..Len(snap[u]) :
                    (i < j) => (Arrival(snap[u][i]) < Arrival(snap[u][j]))
            /\ \A i \in 1..Len(issued[u]) :
                    \E j \in 1..Len(snap[u]) : i \in CallsWith(snap[u][j], issued[u]))
    /\ [][\A u \in Users :
            (snap'[u] # snap[u]) =>
                (/\ snap'[u] # <<>>
                 /\ \A i \in 1..Len(snap'[u]), j \in 1..Len(snap[u]) :
                        Arrival(snap'[u][i]) > Arrival(snap[u][j]))]_vars

C32_Witness ==
    \E u \in Users :
        /\ enq[u] = 3
        /\ snap[u] = <<Payload("text", 2), Payload("image", 3)>>
        /\ issued[u] = <<Text(<<"2">>), Payload("image", 3)>>
        /\ drainEnd[u] = "complete"

\* the user has a pending debounce timer or a processQueue call in progress
Scheduled(u) == timers[u] > 0 \/ \E k \in Slots : drain[u][k].pc # "idle"

\* C33: a user is in processing exactly while a debounce timer is pending or
\* a processQueue call is in progress, and the queue of a user who is not in
\* processing is empty.
C33_IdleMeansEmpty ==
    \A u \in Users :
        /\ (u \in processing) <=> Scheduled(u)
        /\ (u \notin processing) => (queues[u] = <<>>)

C33_Witness ==
    \E u \in Users :
        /\ u \notin processing
        /\ drainEnd[u] = "aborted"
        /\ Len(snap[u]) = 2
        /\ queues[u] = <<>>

\* C36: at most one threads.create call of a user is pending at any time, and
\* a thread id stored for a user is never replaced.
C36_OneCreation ==
    /\ [](\A u \in Users :
            Cardinality({k \in Slots : drain[u][k].pc = "create"}) <= 1)
    /\ [][\A u \in Users :
            (threads[u] # NoEntry) => (threads'[u] = threads[u])]_vars

C36_Witness ==
    \E u \in Users, k \in Slots :
        /\ drain[u][k].pc = "create"
        /\ Len(queues[u]) = Len(snap[u]) + 1
        /\ turnEnd[u].st = "failed"


\* ------------------------------------------------------------------------
\* The processing flag is cleared
\* ------------------------------------------------------------------------
\* C34: when the debounce timer fires and no awaited call stays pending
\* forever, a user who is in processing (a payload was enqueued) leaves it:
\* processQueue ends, by its last statements or by its catch block, whether
\* the processMessage calls and the sends return or throw; and the user is
\* put into processing by every addMessage.
C34_FlagCleared ==
    /\ (Observed \in processing) ~> (Observed \notin processing)
    /\ [][enq'[Observed] # enq[Observed] => Observed \in processing']_vars

C34_Witness ==
    /\ Observed \notin processing
    /\ drainEnd[Observed] = "complete"
    /\ turnEnd[Observed].st = "ok"
    /\ \E i \in 1..Len(LinesOf(Observed)) : LinesOf(Observed)[i] = SendRejected
    /\ Len(issued[Observed]) = 2

\* ------------------------------------------------------------------------
\* One send for each processMessage call
\* ------------------------------------------------------------------------
\* the processMessage call whose lines are l has returned
Returned(l) == Of(l, {"messages.list.data", "error"}) # <<>>

\* C35: once a processMessage call of the drain has returned, sendMessage has
\* been called for it, with the reply or the apology, also when the reply is
\* the empty string; and at most one sendMessage of the call goes through
\* (a second one is issued only after the first was rejected).
C35_OneSendPerCall ==
    LET l == LinesOf(Observed)
    IN Returned(l) =>
          /\ Calls(l, "sendMessage") # <<>>
          /\ Len(Calls(l, "sendMessage")) <= Len(Calls(l, "sendMessage.rejected")) + 1

\* ------------------------------------------------------------------------
\* Threads whose run was left open
\* ------------------------------------------------------------------------
Terminal == {"completed"} \cup Broken

\* the threads on which the processMessage call with lines l started a run
\* (runs.create returned and the poll began) that it did not see in a
\* terminal status
OpenRuns(l) ==
    IF /\ Calls(l, "runs.retrieve") # <<>>
       /\ \A i \in 1..Len(l) :
              l[i].ev = "run.status" => l[i].text[1] \notin Terminal
    THEN {Calls(l, "runs.create")[i].id : i \in 1..Len(Calls(l, "runs.create"))}
    ELSE {}

\* C37: a processMessage call that begins after a call of the same user left
\* a run open (the poll timed out or threw) neither appends a message to that
\* thread nor starts a run on it.
C37_NoReuseOfOpenRun ==
    [][(issued'[Observed] # issued[Observed] /\ issued'[Observed] # <<>>) =>
          \A i \in 1..Len(LinesOf(Observed)') :
              (LinesOf(Observed)'[i].ev \in {"messages.create", "runs.create"}) =>
                  LinesOf(Observed)'[i].id \notin OpenRuns(LinesOf(Observed))]_vars

\* ------------------------------------------------------------------------
\* The registry across a restart
\* ------------------------------------------------------------------------
\* C38: with writes that succeed, a ThreadManager constructed over the file
\* answers getThreadId(u) with the id of the last valid setThreadId(u, id)
\* that no removeThread(u) followed, and with null for every user that had
\* no entry before the restart, a removed user included.
C38_SurvivesRestart ==
    [][(last'.op = "load") =>
          \A u \in Users :
              /\ (expect[u] # NoEntry => getThreadId(threads', u) = expect[u])
              /\ (threads[u] = NoEntry => getThreadId(threads', u) = NullV)
              /\ (last.op = "remove" => getThreadId(threads', last.u) = NullV)]_vars

C38_Witness ==
    /\ last.op = "load"
    /\ file = FileOk(threads)
    /\ threads["u1"] = StrV(IdB)
    /\ threads["u2"] = NoEntry
====
